---- MODULE Spec2Model ----
(***************************************************************************)
(* A model of the keyword-driven web crawler of src/app.py: the recursive  *)
(* traversal crawl_site with its visited set and depth bound, the          *)
(* relevance decision is_relevant, the markup classifier classify_link,    *)
(* the sheet writer update_sheet and the Start Crawling handler that puts  *)
(* them together.                                                          *)
(*                                                                         *)
(* URLs are opaque to the program (it only compares them), so they are the *)
(* numbers 1..MaxRefs.  Markup is a sequence of one-character strings.     *)
(* Scores are in thousandths (0.01 is 10).  Time is in seconds.            *)
(***************************************************************************)
EXTENDS Integers, Sequences, FiniteSets, TLC

\* ------------------------------------------------------------ bounds
\* the URL occurrences of one run: its initial URLs plus every hyperlink of
\* every page it fetches
MaxRefs == 5
\* update_sheet: the distinct cell values, the rows of the sheet beforehand
\* and the length of the batch
NumKeys == 4
MaxRows == 2
MaxBatch == 4
\* classify_link: the fragments a markup is put together from
MaxFrags == 3
\* the initial URLs of a run that is followed by a second run
MaxSeedsAgain == 1

\* ---------------------------------------------------- configuration
\* RELEVANCE_THRESHOLD = 0.01, in thousandths
RELEVANCE_THRESHOLD == 10
MAX_CRAWL_DEPTH == 2
\* CRAWL_TIMEOUT = 30 * 60 seconds
CRAWL_TIMEOUT == 30 * 60

Urls == 1..MaxRefs
Keys == 1..NumKeys

VARIABLES
    pc,             \* where the program is
    env,            \* the site crawled: the pages it serves, how long a fetch takes
    initial_urls,   \* the handler's initial_urls
    stack,          \* the active crawl_site calls, the innermost last
    visited,        \* the visited set shared by all crawl_site calls
    final_results,  \* what the top-level crawl_site call returned
    elapsed,        \* time.time() - start_time, in seconds
    warned,         \* whether "Crawl timed out." was shown
    log,            \* history: every URL a crawl_site loop took up, in order
    calls,          \* history: the crawl_site calls made, in order
    sheet_open,     \* column 1 of the sheet of open access links
    sheet_form,     \* column 1 of the sheet of form-based links
    open_added,     \* the handler's open_added
    form_added,     \* the handler's form_added
    appends,        \* history: the append_rows calls of the handler, in order
    previous,       \* history: the log of the run before this one
    sheet,          \* update_sheet: column 1 of the sheet
    sheet0,         \* history: column 1 before the call
    batch,          \* update_sheet: its argument links
    new_links,      \* update_sheet: what it returned
    append_calls,   \* update_sheet: the batches given to sheet.append_rows
    html,           \* classify_link: its argument
    category        \* classify_link: what it returned

crawlVars ==
    <<env, initial_urls, stack, visited, final_results, elapsed, warned, log, calls>>
handlerVars == <<sheet_open, sheet_form, open_added, form_added, appends, previous>>
sheetVars == <<sheet, sheet0, batch, new_links, append_calls>>
classifyVars == <<html, category>>
vars == <<pc, crawlVars, handlerVars, sheetVars, classifyVars>>

\* ------------------------------------------------------------ helpers
Range(s) == {s[i] : i \in 1..Len(s)}

Max(S) == IF S = {} THEN 0 ELSE CHOOSE m \in S : \A x \in S : x <= m

SeqsUpTo(S, n) == UNION {[1..k -> S] : k \in 0..n}

NoDup(s) == \A i, j \in 1..Len(s) : i # j => s[i] # s[j]

RECURSIVE Flatten(_)
Flatten(ss) == IF ss = <<>> THEN <<>> ELSE ss[1] \o Flatten(Tail(ss))

\* ------------------------------------------------------------ markup
\* the letters, upper case with lower case
CasePairs ==
    { <<"A", "a">>, <<"B", "b">>, <<"C", "c">>, <<"D", "d">>, <<"E", "e">>,
      <<"F", "f">>, <<"G", "g">>, <<"H", "h">>, <<"I", "i">>, <<"J", "j">>,
      <<"K", "k">>, <<"L", "l">>, <<"M", "m">>, <<"N", "n">>, <<"O", "o">>,
      <<"P", "p">>, <<"Q", "q">>, <<"R", "r">>, <<"S", "s">>, <<"T", "t">>,
      <<"U", "u">>, <<"V", "v">>, <<"W", "w">>, <<"X", "x">>, <<"Y", "y">>,
      <<"Z", "z">> }

\* matching without re.IGNORECASE
NoFold(c) == c

\* re.IGNORECASE: a letter matches in either case
Lower(c) ==
    IF \E p \in CasePairs : p[1] = c
    THEN (CHOOSE p \in CasePairs : p[1] = c)[2]
    ELSE c

\* whether the literal pat matches markup at position pos
MatchAt(markup, pos, pat) ==
    /\ pos + Len(pat) - 1 <= Len(markup)
    /\ \A k \in 1..Len(pat) : Lower(markup[pos + k - 1]) = Lower(pat[k])

\* the alternatives of the pattern r'<input|<form|@|\.com'
FormPatterns ==
    { <<"<", "i", "n", "p", "u", "t">>,
      <<"<", "f", "o", "r", "m">>,
      <<"@">>,
      <<".", "c", "o", "m">> }

\* re.search(pattern, markup, re.IGNORECASE) finds a match
re_search(pats, markup) ==
    \E pos \in 1..Len(markup) : \E pat \in pats : MatchAt(markup, pos, pat)

classify_link(markup) ==
    IF re_search(FormPatterns, markup) THEN "form" ELSE "open"

\* ------------------------------------------------------------ scoring
\* the page taken as relevant when the library raises
is_relevant_unless_scored(tfidf) ==
    IF tfidf.raised
    THEN [rel |-> TRUE, score |-> 0]
    ELSE [rel |-> tfidf.score >= RELEVANCE_THRESHOLD, score |-> tfidf.score]

\* the threshold taken as exclusive
is_relevant_strict(tfidf) ==
    IF tfidf.raised
    THEN [rel |-> FALSE, score |-> 0]
    ELSE [rel |-> tfidf.score > RELEVANCE_THRESHOLD, score |-> tfidf.score]

\* is_relevant(content, keywords), given what TfidfVectorizer and
\* cosine_similarity do for the page: raise, or give a score in thousandths
is_relevant(tfidf) ==
    IF tfidf.raised
    THEN [rel |-> FALSE, score |-> 0]
    ELSE [rel |-> tfidf.score >= RELEVANCE_THRESHOLD, score |-> tfidf.score]

\* ------------------------------------------------------------ the site
\* A page: the markup page.content() gives, and what the TF-IDF library does
\* with that markup and the run's keywords.
Page(markup, raised, score) ==
    [html |-> markup, tfidf |-> [raised |-> raised, score |-> score]]

\* <p>hi</p>, scored exactly at the threshold
PageAtThreshold ==
    Page(<<"<", "p", ">", "h", "i", "<", "/", "p", ">">>, FALSE, RELEVANCE_THRESHOLD)
\* <Form></form>, scored above the threshold
PageForm ==
    Page(<<"<", "F", "o", "r", "m", ">", "<", "/", "f", "o", "r", "m", ">">>,
         FALSE, RELEVANCE_THRESHOLD + 1)
\* <b>x.com</b>, scored just below the threshold
PageBelow ==
    Page(<<"<", "b", ">", "x", ".", "c", "o", "m", "<", "/", "b", ">">>,
         FALSE, RELEVANCE_THRESHOLD - 1)
\* <p></p>, on which the TF-IDF library raises
PageRaises ==
    Page(<<"<", "p", ">", "<", "/", "p", ">">>, TRUE, 0)

\* What a run may meet: the pages a site serves, the seconds one
\* get_links_from_page call takes (at least the 2 seconds it sleeps),
\* column 1 of the two sheets before the run, and whether "Start Crawling"
\* is pressed once more after the run.
Envs ==
    { [pages |-> {PageBelow}, seconds |-> {2, CRAWL_TIMEOUT + 1},
       open_rows |-> <<>>, form_rows |-> <<>>, again |-> FALSE],
      [pages |-> {PageAtThreshold, PageForm}, seconds |-> {2},
       open_rows |-> <<1>>, form_rows |-> <<2>>, again |-> TRUE],
      [pages |-> {PageBelow, PageRaises}, seconds |-> {2},
       open_rows |-> <<>>, form_rows |-> <<>>, again |-> FALSE] }

\* The lists of at most n URLs, of which those that differ by a renaming of
\* the URLs not met so far are one: new URLs come in increasing order.
UrlSeqs(known, n) ==
    {s \in SeqsUpTo(Urls, n) :
        \A i \in 1..Len(s) : s[i] <= 1 + Max({known} \cup {s[j] : j \in 1..(i - 1)})}

\* list(set(...)): the duplicate-free lists of at most n URLs, in any order.
\* URLs are only ever compared, so of the lists that differ by a renaming of
\* the URLs not met so far (those above known) one is kept: new URLs come in
\* increasing order.
UrlLists(known, n) ==
    {s \in SeqsUpTo(Urls, n) :
        /\ NoDup(s)
        /\ \A i \in 1..Len(s) : s[i] <= 1 + Max({known} \cup {s[j] : j \in 1..(i - 1)})}

\* list(set(links)): the URLs of links, each once, in any order
list_set(links) ==
    {s \in [1..Cardinality(Range(links)) -> Range(links)] : Range(s) = Range(links)}

\* --------------------------------------------------------- crawl_site
\* a call of crawl_site: its start_urls, the position of its loop in them,
\* its depth and its results
Frame(urls, depth) ==
    [urls |-> urls, i |-> 1, depth |-> depth, open |-> <<>>, form |-> <<>>]

Top == stack[Len(stack)]

SetTop(f) == [stack EXCEPT ![Len(stack)] = f]

\* the bound checked one level late
depth_exceeded_late(depth) == depth > MAX_CRAWL_DEPTH + 1

\* if depth > MAX_CRAWL_DEPTH
depth_exceeded(depth) == depth > MAX_CRAWL_DEPTH

\* the visited set never consulted
never_visited(url) == FALSE

\* if url in visited
already_visited(url) == url \in visited

\* the URL never put into visited
visited_add_forgotten(v, url) == v

\* the whole list put into visited at its first URL
visited_add_start_urls(v, url) == v \cup Range(Top.urls)

\* visited.add(url)
visited_add(v, url) == v \cup {url}

\* the loop staying at the URL it is at
continue_at_same_url(f) == f

\* continue: the loop goes on with the next URL of start_urls
continue(f) == [f EXCEPT !.i = @ + 1]

\* break instead of continue: the loop is left
abort_no_html(f) == [f EXCEPT !.i = Len(f.urls) + 1]

\* if not html: "Skipped (no HTML)", continue
skip_no_html(f) == continue(f)

\* results[category].append(url), when is_rel
record(f, rel, cat, url) ==
    [f EXCEPT !.open = IF rel /\ cat = "open" THEN Append(@, url) ELSE @,
              !.form = IF rel /\ cat = "form" THEN Append(@, url) ELSE @]

\* the 'form' records of the sub-results left behind
extend_open_only(f, sub) ==
    [f EXCEPT !.open = @ \o sub.open]

\* results[...].extend(sub_results[...])
extend(f, sub) ==
    [f EXCEPT !.open = @ \o sub.open, !.form = @ \o sub.form]

\* what the history keeps of a crawl_site call
Call(urls, depth) == [urls |-> urls, depth |-> depth]

\* the links followed only when the page is relevant
sub_call_if_relevant(s, rel, links, depth) ==
    IF rel THEN Append(s, Frame(links, depth)) ELSE s

\* sub_results = crawl_site(links, keywords, visited, depth + 1), made
\* whatever is_rel is
sub_call(s, rel, links, depth) == Append(s, Frame(links, depth))

\* the call at the top is inside its loop, at a URL
AtUrl ==
    /\ pc = "crawling"
    /\ stack # <<>>
    /\ ~depth_exceeded(Top.depth)
    /\ Top.i <= Len(Top.urls)

CurUrl == Top.urls[Top.i]

\* the hyperlinks met so far, and the largest URL met so far
RECURSIVE SumLinks(_)
SumLinks(l) == IF l = <<>> THEN 0 ELSE Len(l[1].links) + SumLinks(Tail(l))

\* what the run before this one found at url, if it fetched it: the site is
\* the same from run to run
Before(url) == SelectSeq(previous, LAMBDA e : e.op = "fetch" /\ e.url = url)

Known ==
    Max(Range(initial_urls)
        \cup UNION {Range(log[k].links) : k \in 1..Len(log)}
        \cup UNION {Range(previous[k].links) : k \in 1..Len(previous)})

RefsLeft ==
    MaxRefs - Len(initial_urls) - SumLinks(previous)
        - SumLinks(SelectSeq(log, LAMBDA e : Before(e.url) = <<>>))

\* the page url serves and the list of its hyperlinks: as in the run before
\* (the list in any order), else any page of the site with any links
PagesAt(url) ==
    IF Before(url) = <<>> THEN env.pages
    ELSE {page \in env.pages : page.html = Before(url)[1].html}

LinksAt(url) ==
    IF Before(url) = <<>> THEN UrlLists(Known, RefsLeft)
    ELSE list_set(Before(url)[1].links)

\* what the log keeps of a URL taken up; marked is whether the URL is in
\* visited when the loop body is past visited.add, where the fetch is made
Event(op, page, raised, score, links) ==
    [op |-> op, url |-> CurUrl, depth |-> Top.depth, html |-> page,
     raised |-> raised, score |-> score, links |-> links,
     late |-> elapsed > CRAWL_TIMEOUT, marked |-> CurUrl \in visited']

\* one get_links_from_page call takes d seconds; the clock is followed until
\* the timeout has passed, and by the sleep only from then on
Takes(d) ==
    /\ d \in env.seconds
    /\ d > 2 => elapsed <= CRAWL_TIMEOUT
    /\ elapsed' = elapsed + d

\* return results: to the calling crawl_site, or to the handler
ReturnResults(res) ==
    IF Len(stack) = 1
    THEN /\ final_results' = res
         /\ stack' = <<>>
         /\ pc' = "crawled"
    ELSE /\ stack' = [SubSeq(stack, 1, Len(stack) - 1) EXCEPT ![Len(stack) - 1] =
                        extend(stack[Len(stack) - 1], res)]
         /\ UNCHANGED <<final_results, pc>>

\* if depth > MAX_CRAWL_DEPTH: return results
DepthExceeded ==
    /\ pc = "crawling"
    /\ stack # <<>>
    /\ depth_exceeded(Top.depth)
    /\ ReturnResults([open |-> <<>>, form |-> <<>>])
    /\ UNCHANGED <<env, initial_urls, visited, elapsed, warned, log, calls>>
    /\ UNCHANGED <<handlerVars, sheetVars, classifyVars>>

\* if url in visited: continue
SkipVisited ==
    /\ AtUrl
    /\ already_visited(CurUrl)
    /\ UNCHANGED visited
    /\ stack' = SetTop(continue(Top))
    /\ log' = Append(log, Event("skip", <<>>, FALSE, 0, <<>>))
    /\ UNCHANGED <<pc, env, initial_urls, final_results, elapsed, warned, calls>>
    /\ UNCHANGED <<handlerVars, sheetVars, classifyVars>>

\* get_links_from_page gave '', []: "Skipped (no HTML)", continue
FetchFailed ==
    /\ AtUrl
    /\ ~already_visited(CurUrl)
    /\ IF Before(CurUrl) = <<>> THEN TRUE ELSE Before(CurUrl)[1].html = <<>>
    /\ visited' = visited_add(visited, CurUrl)
    /\ \E d \in env.seconds : Takes(d)
    /\ stack' = SetTop(skip_no_html(Top))
    /\ log' = Append(log, Event("fetch", <<>>, FALSE, 0, <<>>))
    /\ UNCHANGED <<pc, env, initial_urls, final_results, warned, calls>>
    /\ UNCHANGED <<handlerVars, sheetVars, classifyVars>>

\* get_links_from_page gave the page: score it, record it when relevant,
\* then crawl_site(links, keywords, visited, depth + 1)
FetchOk ==
    /\ AtUrl
    /\ ~already_visited(CurUrl)
    /\ visited' = visited_add(visited, CurUrl)
    /\ \E d \in env.seconds : Takes(d)
    /\ \E page \in PagesAt(CurUrl), links \in LinksAt(CurUrl) :
         LET r == is_relevant(page.tfidf)
             f == record(Top, r.rel, classify_link(page.html), CurUrl)
         IN /\ stack' = sub_call(SetTop(continue(f)), r.rel, links, Top.depth + 1)
            /\ calls' = IF Len(stack') > Len(stack)
                        THEN Append(calls, Call(links, Top.depth + 1))
                        ELSE calls
            /\ log' = Append(log, Event("fetch", page.html, page.tfidf.raised,
                                        r.score, links))
    /\ UNCHANGED <<pc, env, initial_urls, final_results, warned>>
    /\ UNCHANGED <<handlerVars, sheetVars, classifyVars>>

\* the loop is over: return results
LoopDone ==
    /\ pc = "crawling"
    /\ stack # <<>>
    /\ ~depth_exceeded(Top.depth)
    /\ Top.i > Len(Top.urls)
    /\ ReturnResults([open |-> Top.open, form |-> Top.form])
    /\ UNCHANGED <<env, initial_urls, visited, elapsed, warned, log, calls>>
    /\ UNCHANGED <<handlerVars, sheetVars, classifyVars>>

\* ------------------------------------------------------------ handler
\* CUSTOM_DOMAINS = ["https://example.com"]
CUSTOM_DOMAINS == <<1>>

\* What requests.get and response.json() give for one query: an exception, a
\* status other than 200, or status 200 with the links of the items.
Responses(links) ==
    { [raised |-> TRUE, status |-> 0, links |-> <<>>],
      [raised |-> FALSE, status |-> 403, links |-> <<>>],
      [raised |-> FALSE, status |-> 200, links |-> links] }

\* google_search(query, api_key, cse_id), given the response
google_search(response) ==
    IF response.raised \/ response.status # 200 THEN <<>> ELSE response.links

\* the emptiness of initial_urls never checked
go_on_without_urls(urls) == FALSE

\* if not initial_urls
no_initial_urls(urls) == urls = <<>>

\* if not api_key or not cse_id: st.error(...), st.stop()
MissingKey ==
    /\ pc = "start"
    /\ pc' = "no_key"
    /\ UNCHANGED <<crawlVars, handlerVars, sheetVars, classifyVars>>

\* option == "Google Search": for query in generate_queries(keywords):
\* initial_urls.extend(google_search(query, api_key, cse_id)); the two
\* queries are the AND query and the OR query
GoogleSearch ==
    /\ pc = "start"
    /\ \E found \in UrlSeqs(0, MaxRefs) :
         \E cut \in 0..Len(found) :
            \E and_response \in Responses(SubSeq(found, 1, cut)),
               or_response \in Responses(SubSeq(found, cut + 1, Len(found))) :
               /\ initial_urls' = google_search(and_response) \o google_search(or_response)
               /\ initial_urls' \in UrlSeqs(0, MaxRefs)
    /\ pc' = "seeded"
    /\ UNCHANGED <<env, stack, visited, final_results, elapsed, warned, log, calls>>
    /\ UNCHANGED <<sheet_open, sheet_form, open_added, form_added, appends, previous>>
    /\ UNCHANGED <<sheetVars, classifyVars>>

\* option == "Internal Site Search": initial_urls.extend(CUSTOM_DOMAINS)
InternalSiteSearch ==
    /\ pc = "start"
    /\ initial_urls' = CUSTOM_DOMAINS
    /\ pc' = "seeded"
    /\ UNCHANGED <<env, stack, visited, final_results, elapsed, warned, log, calls>>
    /\ UNCHANGED <<sheet_open, sheet_form, open_added, form_added, appends, previous>>
    /\ UNCHANGED <<sheetVars, classifyVars>>

\* initial_urls = list(set(initial_urls)); without any the run stops; else
\* visited = set(), start_time = time.time() and
\* crawl_site(initial_urls, keywords, visited).  The site and the two sheets
\* (client.open_by_url) are what the run finds them to be.
StartCrawling ==
    /\ pc = "seeded"
    /\ \E urls \in list_set(initial_urls) \cap UrlLists(0, MaxRefs), e \in Envs :
         /\ initial_urls' = urls
         /\ env' = e
         /\ sheet_open' = e.open_rows
         /\ sheet_form' = e.form_rows
         /\ IF no_initial_urls(urls)
            THEN pc' = "stopped" /\ UNCHANGED <<stack, calls>>
            ELSE /\ pc' = "crawling"
                 /\ stack' = <<Frame(urls, 0)>>
                 /\ calls' = <<Call(urls, 0)>>
    /\ visited' = {}
    /\ elapsed' = 0
    /\ UNCHANGED <<final_results, warned, log>>
    /\ UNCHANGED <<open_added, form_added, appends, previous>>
    /\ UNCHANGED <<sheetVars, classifyVars>>

\* "Start Crawling" pressed again after a complete run: the script runs anew
\* on the same site, with the same search results in any order, and finds the
\* sheets as the run before left them
StartCrawlingAgain ==
    /\ pc = "complete"
    /\ env.again
    /\ Len(initial_urls) <= MaxSeedsAgain
    /\ previous = <<>>
    /\ previous' = log
    /\ \E urls \in list_set(initial_urls) :
         /\ initial_urls' = urls
         /\ stack' = <<Frame(urls, 0)>>
         /\ calls' = <<Call(urls, 0)>>
    /\ visited' = {}
    /\ elapsed' = 0
    /\ log' = <<>>
    /\ appends' = <<>>
    /\ warned' = FALSE
    /\ final_results' = [open |-> <<>>, form |-> <<>>]
    /\ open_added' = <<>>
    /\ form_added' = <<>>
    /\ pc' = "crawling"
    /\ UNCHANGED <<env, sheet_open, sheet_form>>
    /\ UNCHANGED <<sheetVars, classifyVars>>

\* if time.time() - start_time > CRAWL_TIMEOUT: st.warning("Crawl timed out.")
TimeoutCheck ==
    /\ pc = "crawled"
    /\ warned' = (elapsed > CRAWL_TIMEOUT)
    /\ pc' = "checked"
    /\ UNCHANGED <<env, initial_urls, stack, visited, final_results, elapsed, log, calls>>
    /\ UNCHANGED <<handlerVars, sheetVars, classifyVars>>

\* ------------------------------------------------------- update_sheet
\* append_rows called whatever new_links holds
update_sheet_always_appends(existing, links) ==
    LET new == SelectSeq(links, LAMBDA link : link \notin Range(existing))
    IN [new_links |-> new, appends |-> <<new>>]

\* update_sheet(sheet, links) on a sheet whose column 1 is existing: what it
\* returns and the batches it gives to sheet.append_rows
update_sheet(existing, links) ==
    LET new == SelectSeq(links, LAMBDA link : link \notin Range(existing))
    IN [new_links |-> new,
        appends |-> IF new # <<>> THEN <<new>> ELSE <<>>]

UpdateSheet ==
    /\ pc = "sheet_call"
    /\ LET r == update_sheet(sheet, batch)
       IN /\ new_links' = r.new_links
          /\ append_calls' = r.appends
          /\ sheet' = sheet \o Flatten(r.appends)
    /\ pc' = "sheet_done"
    /\ UNCHANGED <<sheet0, batch>>
    /\ UNCHANGED <<crawlVars, handlerVars, classifyVars>>

\* open_added = update_sheet(sheet_open, list(set(final_results['open'])))
UpdateSheetOpen ==
    /\ pc = "checked"
    /\ \E links \in list_set(final_results.open) :
         LET r == update_sheet(sheet_open, links)
         IN /\ open_added' = r.new_links
            /\ sheet_open' = sheet_open \o Flatten(r.appends)
            /\ appends' = appends \o [k \in 1..Len(r.appends) |->
                                        [sheet |-> "open", rows |-> r.appends[k]]]
    /\ pc' = "open_updated"
    /\ UNCHANGED <<crawlVars, sheet_form, form_added, previous>>
    /\ UNCHANGED <<sheetVars, classifyVars>>

\* form_added = update_sheet(sheet_form, list(set(final_results['form'])))
UpdateSheetForm ==
    /\ pc = "open_updated"
    /\ \E links \in list_set(final_results.form) :
         LET r == update_sheet(sheet_form, links)
         IN /\ form_added' = r.new_links
            /\ sheet_form' = sheet_form \o Flatten(r.appends)
            /\ appends' = appends \o [k \in 1..Len(r.appends) |->
                                        [sheet |-> "form", rows |-> r.appends[k]]]
    /\ pc' = "complete"
    /\ UNCHANGED <<crawlVars, sheet_open, open_added, previous>>
    /\ UNCHANGED <<sheetVars, classifyVars>>

\* ------------------------------------------------------ classify_link
ClassifyLink ==
    /\ pc = "classify_call"
    /\ category' = classify_link(html)
    /\ pc' = "classify_done"
    /\ UNCHANGED html
    /\ UNCHANGED <<crawlVars, handlerVars, sheetVars>>

\* ------------------------------------------------------ specifications
CrawlIdle ==
    /\ env = [pages |-> {}, seconds |-> {}, open_rows |-> <<>>, form_rows |-> <<>>,
              again |-> FALSE]
    /\ sheet_open = <<>>
    /\ sheet_form = <<>>
    /\ open_added = <<>>
    /\ form_added = <<>>
    /\ appends = <<>>
    /\ previous = <<>>
    /\ initial_urls = <<>>
    /\ stack = <<>>
    /\ visited = {}
    /\ final_results = [open |-> <<>>, form |-> <<>>]
    /\ elapsed = 0
    /\ warned = FALSE
    /\ log = <<>>
    /\ calls = <<>>

SheetIdle ==
    /\ sheet = <<>>
    /\ sheet0 = <<>>
    /\ batch = <<>>
    /\ new_links = <<>>
    /\ append_calls = <<>>

ClassifyIdle ==
    /\ html = <<>>
    /\ category = "none"

\* the Start Crawling handler
Init ==
    /\ pc = "start"
    /\ CrawlIdle
    /\ SheetIdle
    /\ ClassifyIdle

Next ==
    \/ MissingKey
    \/ GoogleSearch
    \/ InternalSiteSearch
    \/ StartCrawling
    \/ DepthExceeded
    \/ SkipVisited
    \/ FetchFailed
    \/ FetchOk
    \/ LoopDone
    \/ TimeoutCheck
    \/ UpdateSheetOpen
    \/ UpdateSheetForm

Spec == Init /\ [][Next]_vars

\* The handler runs in one thread and every call it makes (a fetch, a search,
\* a sheet call) is taken to return: a step that can be taken is taken.
FairSpec == Spec /\ WF_vars(Next)

\* the handler run, and run once more
NextAgain == Next \/ StartCrawlingAgain

SpecAgain == Init /\ [][NextAgain]_vars

\* update_sheet on any sheet and any batch
InitSheet ==
    /\ pc = "sheet_call"
    /\ sheet \in SeqsUpTo(Keys, MaxRows)
    /\ sheet0 = sheet
    /\ batch \in SeqsUpTo(Keys, MaxBatch)
    /\ new_links = <<>>
    /\ append_calls = <<>>
    /\ CrawlIdle
    /\ ClassifyIdle

NextSheet == UpdateSheet

SpecSheet == InitSheet /\ [][NextSheet]_vars

\* classify_link on any markup put together from the fragments, and on the
\* three documented examples
Fragments ==
    { <<"<", "i", "n">>, <<"p", "u", "t">>, <<"<", "F", "O">>, <<"r", "m">>,
      <<"@">>, <<".", "C">>, <<"o", "m">>, <<"<", "p", ">">> }

\* <form></form>
ExampleForm ==
    <<"<", "f", "o", "r", "m", ">", "<", "/", "f", "o", "r", "m", ">">>
\* <p>hello</p>
ExampleHello ==
    <<"<", "p", ">", "h", "e", "l", "l", "o", "<", "/", "p", ">">>
\* contact me at a@b.com
ExampleContact ==
    <<"c", "o", "n", "t", "a", "c", "t", " ", "m", "e", " ", "a", "t", " ",
      "a", "@", "b", ".", "c", "o", "m">>

Markups ==
    {Flatten(fs) : fs \in SeqsUpTo(Fragments, MaxFrags)}
        \cup {ExampleForm, ExampleHello, ExampleContact}

InitClassify ==
    /\ pc = "classify_call"
    /\ html \in Markups
    /\ category = "none"
    /\ CrawlIdle
    /\ SheetIdle

NextClassify == ClassifyLink

SpecClassify == InitClassify /\ [][NextClassify]_vars

\* =============================================================== claims
IsFetch(e) == e.op = "fetch"
IsFailed(e) == e.op = "fetch" /\ e.html = <<>>
IsFetched(e) == e.op = "fetch" /\ e.html # <<>>

CrawlOver == pc \in {"crawled", "checked", "open_updated", "complete"}

\* every URL in a result bucket of a running call or of the returned results
Recorded ==
    Flatten([k \in 1..Len(stack) |-> stack[k].open \o stack[k].form])
        \o final_results.open \o final_results.form

\* C1: one run fetches each URL at most once; a URL that is taken up again
\* was fetched before and is skipped, neither fetched nor expanded.
C1_FetchedAtMostOnce ==
    /\ \A i, j \in 1..Len(log) :
         (i < j /\ IsFetch(log[i]) /\ IsFetch(log[j])) => log[i].url # log[j].url
    /\ \A j \in 1..Len(log) :
         log[j].op = "skip" =>
            /\ \E i \in 1..(j - 1) : IsFetch(log[i]) /\ log[i].url = log[j].url
            /\ log[j].links = <<>>

\* a finished run in which a URL came up again at another depth than the one
\* it was fetched at, and one came up that links to itself
C1_Witness ==
    /\ CrawlOver
    /\ \E i, j \in 1..Len(log) :
         /\ IsFetched(log[i]) /\ log[j].op = "skip"
         /\ log[i].url = log[j].url /\ log[i].depth # log[j].depth
    /\ \E i \in 1..Len(log) : IsFetched(log[i]) /\ log[i].url \in Range(log[i].links)

\* C2: nothing is taken up, fetched, scored or recorded at a depth above
\* MAX_CRAWL_DEPTH; the initial URLs are at depth 0 and the links of a page at
\* depth d at depth d + 1; a call above the bound returns empty results.
C2_DepthBound ==
    /\ \A k \in 1..Len(log) : log[k].depth <= MAX_CRAWL_DEPTH
    /\ \A k \in 1..Len(stack) :
         /\ stack[k].depth = k - 1
         /\ stack[k].depth > MAX_CRAWL_DEPTH =>
              stack[k].i = 1 /\ stack[k].open = <<>> /\ stack[k].form = <<>>
    /\ \A u \in Range(Recorded) :
         \E k \in 1..Len(log) :
            IsFetched(log[k]) /\ log[k].url = u /\ log[k].depth <= MAX_CRAWL_DEPTH

\* a finished run in which a page at depth MAX_CRAWL_DEPTH linked to a URL
\* that was never visited
C2_Witness ==
    /\ CrawlOver
    /\ \E k \in 1..Len(log) :
         /\ IsFetched(log[k]) /\ log[k].depth = MAX_CRAWL_DEPTH
         /\ \E u \in Range(log[k].links) : u \notin visited

\* C3: once CRAWL_TIMEOUT seconds have passed since the start of the crawl, no
\* further URL is fetched.
C3_NoFetchAfterDeadline ==
    \A k \in 1..Len(log) : IsFetch(log[k]) => ~log[k].late

\* C4: the URLs are fetched level by level: every URL of depth d before any
\* URL of depth d + 1.
C4_LevelOrder ==
    \A i, j \in 1..Len(log) :
        (i < j /\ IsFetch(log[i]) /\ IsFetch(log[j])) => log[i].depth <= log[j].depth

\* the candidates not in the sheet, each once, at its first occurrence
RECURSIVE FirstNew(_, _)
FirstNew(existing, links) ==
    IF links = <<>> THEN <<>>
    ELSE IF links[1] \in existing
         THEN FirstNew(existing, Tail(links))
         ELSE <<links[1]>> \o FirstNew(existing \cup {links[1]}, Tail(links))

\* C5: update_sheet appends and returns exactly the candidates that are not in
\* the sheet, a candidate that occurs several times in the batch only once.
C5_ReturnsEachNewOnce ==
    pc = "sheet_done" =>
        /\ new_links = FirstNew(Range(sheet0), batch)
        /\ sheet = sheet0 \o FirstNew(Range(sheet0), batch)

\* C6: a failed fetch does not end the traversal: the URL is recorded in no
\* bucket, nothing is expanded below it (what is taken up next is no deeper),
\* it is not fetched again, and at the end every URL of every list that was
\* gone through has been visited.
C6_FailedFetchIsDeadEnd ==
    /\ \A k \in 1..Len(log) :
         IsFailed(log[k]) =>
            /\ log[k].url \notin Range(Recorded)
            /\ k < Len(log) => log[k + 1].depth <= log[k].depth
            /\ \A j \in 1..Len(log) : (j # k /\ IsFetch(log[j])) => log[j].url # log[k].url
    /\ CrawlOver =>
         /\ Range(initial_urls) \subseteq visited
         /\ \A k \in 1..Len(log) :
              (IsFetched(log[k]) /\ log[k].depth < MAX_CRAWL_DEPTH)
                 => Range(log[k].links) \subseteq visited

\* a finished run in which a fetch failed, the next URL of the same list was
\* then fetched, and the failed URL came up again
C6_Witness ==
    /\ CrawlOver
    /\ \E k \in 1..(Len(log) - 1) :
         /\ IsFailed(log[k])
         /\ IsFetched(log[k + 1]) /\ log[k + 1].depth = log[k].depth
         /\ \E j \in (k + 1)..Len(log) : log[j].op = "skip" /\ log[j].url = log[k].url

\* C7: no URL occurs twice in the results, in one bucket or across the two.
C7_RecordedOnce == NoDup(Recorded)

\* a finished run with both buckets filled in which a recorded URL came up again
C7_Witness ==
    /\ CrawlOver
    /\ final_results.open # <<>>
    /\ final_results.form # <<>>
    /\ \E j \in 1..Len(log) : log[j].op = "skip" /\ log[j].url \in Range(Recorded)

\* the markup holds the word, in either case of its letters
SameLetter(a, b) == a = b \/ <<a, b>> \in CasePairs \/ <<b, a>> \in CasePairs
Holds(markup, word) ==
    \E pos \in 0..(Len(markup) - Len(word)) :
        \A k \in 1..Len(word) : SameLetter(markup[pos + k], word[k])

\* C8: classify_link gives 'form' exactly when the markup holds "<input",
\* "<form", "@" or ".com" in either case, and 'open' otherwise; the three
\* documented examples come out as documented.
C8_ClassifyRule ==
    pc = "classify_done" =>
        /\ category \in {"form", "open"}
        /\ category = "form" <=>
              \/ Holds(html, <<"<", "i", "n", "p", "u", "t">>)
              \/ Holds(html, <<"<", "f", "o", "r", "m">>)
              \/ "@" \in Range(html)
              \/ Holds(html, <<".", "c", "o", "m">>)
        /\ html = ExampleForm => category = "form"
        /\ html = ExampleHello => category = "open"
        /\ html = ExampleContact => category = "form"

\* a markup with <FOrm, in mixed case and nothing else, classified 'form'
C8_Witness ==
    /\ pc = "classify_done"
    /\ html = <<"<", "F", "O", "r", "m">>
    /\ category = "form"

\* C9: a page is recorded if and only if it was fetched and its score is at
\* least RELEVANCE_THRESHOLD: recorded at exactly the threshold, not below.
C9_RecordedIffAtThreshold ==
    \A k \in 1..Len(log) :
        IsFetch(log[k]) =>
            (log[k].url \in Range(Recorded)
                <=> (log[k].html # <<>> /\ log[k].score >= RELEVANCE_THRESHOLD))

\* a finished run that returned a page scored exactly RELEVANCE_THRESHOLD
C9_Witness ==
    /\ CrawlOver
    /\ \E k \in 1..Len(log) :
         /\ IsFetched(log[k]) /\ log[k].score = RELEVANCE_THRESHOLD
         /\ log[k].url \in Range(final_results.open \o final_results.form)

\* C10: when every candidate is in the sheet already, or there is none,
\* update_sheet calls append_rows not once, leaves the sheet as it was and
\* returns the empty list.
C10_NothingNewNothingWritten ==
    (pc = "sheet_done" /\ Range(batch) \subseteq Range(sheet0)) =>
        /\ append_calls = <<>>
        /\ sheet = sheet0
        /\ new_links = <<>>

\* a call with a batch of several candidates, all in the sheet already
C10_Witness ==
    /\ pc = "sheet_done"
    /\ Len(batch) > 1
    /\ Range(batch) \subseteq Range(sheet0)

\* the handler is past the point where it stops for want of initial URLs
PastSeeding == pc \in {"stopped", "crawling"} \/ CrawlOver

\* C11: when the search gives no URL (every query fails or finds nothing),
\* the run stops before the crawl: crawl_site is not called, no page is
\* fetched and no row is appended to either sheet.
C11_NoUrlsNoCrawl ==
    (PastSeeding /\ initial_urls = <<>>) =>
        /\ pc = "stopped"
        /\ stack = <<>>
        /\ log = <<>>
        /\ visited = {}
        /\ appends = <<>>
        /\ sheet_open = env.open_rows
        /\ sheet_form = env.form_rows

\* a run stopped for want of initial URLs, with sheets that hold rows
C11_Witness ==
    /\ pc = "stopped"
    /\ initial_urls = <<>>
    /\ sheet_open # <<>>
    /\ sheet_form # <<>>

\* the hyperlinks of the page fetched for url, none when it was not fetched
LinksOf(url) ==
    UNION {Range(log[k].links) : k \in {j \in 1..Len(log) : log[j].url = url}}

\* the URLs a chain of at most n hyperlinks leads to from an initial URL
RECURSIVE Within(_)
Within(n) ==
    IF n = 0 THEN Range(initial_urls)
    ELSE Within(n - 1) \cup UNION {LinksOf(url) : url \in Within(n - 1)}

\* C12: in a run without failed fetch and without expired deadline, every URL
\* that a chain of at most MAX_CRAWL_DEPTH hyperlinks leads to from an initial
\* URL has been fetched when crawl_site returns.
C12_AllWithinDepthFetched ==
    (/\ CrawlOver
     /\ elapsed <= CRAWL_TIMEOUT
     /\ \A k \in 1..Len(log) : ~IsFailed(log[k])) =>
        \A url \in Within(MAX_CRAWL_DEPTH) :
            \E k \in 1..Len(log) : IsFetched(log[k]) /\ log[k].url = url

\* C13: a URL is put into visited before it is fetched: at every fetch the
\* URL is in visited already; visited is exactly the set of the URLs a fetch
\* was made for, failed or not, and a call that the depth bound cuts off adds
\* nothing to it.
C13_VisitedIsFetched ==
    /\ \A k \in 1..Len(log) : IsFetch(log[k]) => log[k].marked
    /\ visited = {log[k].url : k \in {j \in 1..Len(log) : IsFetch(log[j])}}
    /\ \A k \in 1..Len(stack) :
         depth_exceeded(stack[k].depth) =>
            \A url \in Range(stack[k].urls) :
                url \in visited => \E j \in 1..Len(log) : IsFetch(log[j]) /\ log[j].url = url

\* a finished run with a failed fetch, in which a page at depth
\* MAX_CRAWL_DEPTH linked to a URL that is not in visited
C13_Witness ==
    /\ CrawlOver
    /\ \E k \in 1..Len(log) : IsFailed(log[k]) /\ log[k].url \in visited
    /\ \E k \in 1..Len(log) :
         /\ IsFetched(log[k]) /\ log[k].depth = MAX_CRAWL_DEPTH
         /\ \E url \in Range(log[k].links) : url \notin visited

\* the pages fetched, in the order of their fetches
Fetched == SelectSeq(log, IsFetched)

\* C14: every page fetched (necessarily at a depth up to MAX_CRAWL_DEPTH) has
\* its hyperlinks handed to a crawl_site call of the next depth, relevant or
\* not; nothing is handed on for a URL whose fetch failed.  So the calls made
\* are the top-level call and, in order, one per fetched page.
C14_LinksPassedOn ==
    /\ calls # <<>> =>
         calls = <<Call(initial_urls, 0)>> \o
                 [k \in 1..Len(Fetched) |-> Call(Fetched[k].links, Fetched[k].depth + 1)]
    /\ (log # <<>> /\ IsFetched(log[Len(log)]) /\ Len(stack) = log[Len(log)].depth + 2) =>
         Top = Frame(log[Len(log)].links, log[Len(log)].depth + 1)
    /\ \A k \in 1..(Len(log) - 1) :
         IsFailed(log[k]) => log[k + 1].depth <= log[k].depth

\* a finished run with a failed fetch and a page below the threshold at depth
\* MAX_CRAWL_DEPTH whose hyperlinks were handed on all the same
C14_Witness ==
    /\ CrawlOver
    /\ \E k \in 1..Len(log) : IsFailed(log[k])
    /\ \E k \in 1..Len(log) :
         /\ IsFetched(log[k]) /\ log[k].depth = MAX_CRAWL_DEPTH
         /\ log[k].score < RELEVANCE_THRESHOLD /\ log[k].links # <<>>
         /\ \E j \in 1..Len(calls) : calls[j] = Call(log[k].links, MAX_CRAWL_DEPTH + 1)

\* the markup holds one of the four marks of a form, in either case
HoldsFormMark(markup) ==
    \/ Holds(markup, <<"<", "i", "n", "p", "u", "t">>)
    \/ Holds(markup, <<"<", "f", "o", "r", "m">>)
    \/ Holds(markup, <<"@">>)
    \/ Holds(markup, <<".", "c", "o", "m">>)

\* the URLs in the 'form' and in the 'open' bucket of a running call or of
\* the returned results
RecordedForm ==
    Flatten([k \in 1..Len(stack) |-> stack[k].form]) \o final_results.form
RecordedOpen ==
    Flatten([k \in 1..Len(stack) |-> stack[k].open]) \o final_results.open

\* C15: the results are complete and rightly bucketed: a URL is in 'form'
\* (in 'open') exactly when its page was fetched, judged relevant and
\* classified 'form' ('open'); the records of the calls below are all in the
\* results of the call that made them, so that what the top-level call
\* returns holds them all.
C15_ResultsComplete ==
    /\ \A k \in 1..Len(log) :
         IsFetch(log[k]) =>
            IF IsFetched(log[k]) /\ log[k].score >= RELEVANCE_THRESHOLD
            THEN IF HoldsFormMark(log[k].html)
                 THEN /\ log[k].url \in Range(RecordedForm)
                      /\ log[k].url \notin Range(RecordedOpen)
                 ELSE /\ log[k].url \in Range(RecordedOpen)
                      /\ log[k].url \notin Range(RecordedForm)
            ELSE log[k].url \notin Range(RecordedForm \o RecordedOpen)
    /\ \A url \in Range(RecordedForm \o RecordedOpen) :
         \E k \in 1..Len(log) : IsFetched(log[k]) /\ log[k].url = url
    /\ CrawlOver =>
         /\ RecordedForm = final_results.form
         /\ RecordedOpen = final_results.open

\* a finished run that returned a 'form' page fetched at depth
\* MAX_CRAWL_DEPTH and an 'open' page fetched at a depth between, besides one
\* of each from the initial URLs
C15_Witness ==
    /\ CrawlOver
    /\ \E k \in 1..Len(log) :
         /\ IsFetched(log[k]) /\ log[k].depth = MAX_CRAWL_DEPTH
         /\ log[k].url \in Range(final_results.form)
    /\ \E k \in 1..Len(log) :
         /\ IsFetched(log[k]) /\ log[k].depth = 1
         /\ log[k].url \in Range(final_results.open)
    /\ \E k \in 1..Len(log) :
         /\ IsFetched(log[k]) /\ log[k].depth = 0
         /\ log[k].url \in Range(final_results.form)

\* C16: when scoring raises, is_relevant gives (False, 0): the page is put
\* in neither bucket, its hyperlinks are handed on like those of any other
\* page, and the run goes through them and through the rest of the lists.
C16_ScoringFailureIsLocal ==
    /\ \A k \in 1..Len(log) :
         log[k].raised =>
            /\ log[k].score = 0
            /\ log[k].url \notin Range(Recorded)
            /\ \E j \in 1..Len(calls) : calls[j] = Call(log[k].links, log[k].depth + 1)
    /\ CrawlOver =>
         /\ Range(initial_urls) \subseteq visited
         /\ \A k \in 1..Len(log) :
              (log[k].raised /\ log[k].depth < MAX_CRAWL_DEPTH)
                 => Range(log[k].links) \subseteq visited

\* a finished run in which scoring raised on the first initial URL's page,
\* the page's hyperlink was fetched next and the next initial URL after that
C16_Witness ==
    /\ CrawlOver
    /\ Len(initial_urls) > 1
    /\ Len(log) > 2
    /\ log[1].raised /\ log[1].links # <<>>
    /\ IsFetched(log[2]) /\ log[2].url = log[1].links[1] /\ log[2].depth = 1
    /\ \E k \in 3..Len(log) : IsFetched(log[k]) /\ log[k].url = initial_urls[2]

\* the URLs of the link graph as far as the run has met it
Met == Range(initial_urls) \cup UNION {Range(log[k].links) : k \in 1..Len(log)}

\* the URLs still to be gone through in the lists of the active calls
RECURSIVE Pending(_)
Pending(s) ==
    IF s = <<>> THEN 0
    ELSE (Len(s[1].urls) + 1 - s[1].i) + Pending(Tail(s))

\* what every step of crawl_site makes smaller: a fetch takes a URL out of
\* those not visited and adds at most all URLs to the pending ones
Variant ==
    (Cardinality(Urls) + 2) * Cardinality(Urls \ visited) + Pending(stack) + Len(stack)

\* C18: the top-level crawl_site call returns, whatever the link graph (with
\* cycles), the initial URLs and the fetches that fail: every step of it
\* lowers a natural number, the call once made does return, and the fetches
\* made are no more than the distinct URLs of the graph.
C18_Terminates ==
    /\ [](Variant >= 0)
    /\ [](Len(SelectSeq(log, IsFetch)) <= Cardinality(Met))
    /\ [][pc = "crawling" => Variant' < Variant]_vars
    /\ (pc = "crawling") ~> (pc = "crawled")

\* a returned call on a graph with a cycle, in which a fetch failed and as
\* many fetches were made as the graph has URLs
C18_Witness ==
    /\ pc = "crawled"
    /\ \E k \in 1..Len(log) : IsFailed(log[k])
    /\ \E k \in 1..Len(log) : log[k].op = "skip" /\ log[k].depth = MAX_CRAWL_DEPTH
    /\ Len(SelectSeq(log, IsFetch)) = Cardinality(Met)
    /\ Cardinality(Met) > 2

\* the rows the run has appended to the sheet, and column 1 of the sheet as
\* the run found it
RowsAppended(name) ==
    Flatten([k \in 1..Len(appends) |->
                IF appends[k].sheet = name THEN appends[k].rows ELSE <<>>])
OpenBefore == SubSeq(sheet_open, 1, Len(sheet_open) - Len(RowsAppended("open")))
FormBefore == SubSeq(sheet_form, 1, Len(sheet_form) - Len(RowsAppended("form")))

\* in one run each sheet gets rows at most once, no URL twice, only URLs of
\* its category that crawl_site returned and that the sheet did not hold; a
\* sheet without a duplicate before the run has none after it
AppendedOnceIfAbsent ==
    /\ Len(appends) <= 2
    /\ \A i, j \in 1..Len(appends) : i # j => appends[i].sheet # appends[j].sheet
    /\ NoDup(RowsAppended("open"))
    /\ NoDup(RowsAppended("form"))
    /\ sheet_open = OpenBefore \o RowsAppended("open")
    /\ sheet_form = FormBefore \o RowsAppended("form")
    /\ Range(RowsAppended("open")) \cap Range(OpenBefore) = {}
    /\ Range(RowsAppended("form")) \cap Range(FormBefore) = {}
    /\ Range(RowsAppended("open")) \subseteq Range(final_results.open)
    /\ Range(RowsAppended("form")) \subseteq Range(final_results.form)
    /\ NoDup(OpenBefore) => NoDup(sheet_open)
    /\ NoDup(FormBefore) => NoDup(sheet_form)
    /\ pc = "complete" =>
         /\ Range(final_results.open) \subseteq Range(sheet_open)
         /\ Range(final_results.form) \subseteq Range(sheet_form)

\* C17: from crawl_site to the two update_sheet calls, a run appends each
\* relevant URL to the sheet of its category at most once and only if the
\* sheet did not hold it, so that a sheet without duplicates stays without;
\* and a second run on the same site appends nothing.
C17_OncePerSinkAndIdempotent ==
    /\ AppendedOnceIfAbsent
    /\ previous # <<>> => appends = <<>>

====
